---- MODULE Spec2Model ----
(***************************************************************************)
(* Model of apollo_pydantic: the ApolloSettingsMetadata registry, its      *)
(* start/stop lifecycle and long-poll loop (core.py), the ApolloClient     *)
(* request layer as far as the engine observes it (client.py), and the     *)
(* flattening of a fetched configuration into os.environ followed by the   *)
(* (re)validation of the singleton settings instance.                      *)
(*                                                                         *)
(* asyncio is single threaded: every action below is the code that runs    *)
(* between two suspension points (an await on the network, on a sleep, on  *)
(* asyncio.wait / gather, or on a Future).                                 *)
(***************************************************************************)
EXTENDS Integers, Sequences, FiniteSets, TLC

(***************************************************************************)
(* Strings the code takes apart (configuration keys) are sequences of      *)
(* one-character strings, so that str.replace and ARRAY_RE are computed.   *)
(***************************************************************************)
None == "None"

Digits == <<"0", "1", "2", "3", "4", "5", "6", "7", "8", "9">>

IsDigit(c) == \E i \in 1..Len(Digits) : Digits[i] = c

DigitVal(c) == (CHOOSE i \in 1..Len(Digits) : Digits[i] = c) - 1

\* \w of a Python str pattern, restricted to the characters the model uses
WordChars == {"a", "b", "c", "d", "e", "k", "l", "o", "p", "r", "t", "y", "A", "L", "O", "P", "_"}

IsNameChar(c) == c \in WordChars \/ IsDigit(c) \/ c = "-" \/ c = "."

\* str.replace(".", delim)
RECURSIVE ReplaceDots(_, _)
ReplaceDots(k, delim) ==
    IF k = << >> THEN << >>
    ELSE (IF Head(k) = "." THEN delim ELSE <<Head(k)>>) \o ReplaceDots(Tail(k), delim)

\* position of the "[" at which ARRAY_RE splits key, 0 when key does not match
ArraySplit(key) ==
    LET n == Len(key)
        ok(i) == /\ i > 1
                 /\ i + 1 < n
                 /\ key[i] = "["
                 /\ key[n] = "]"
                 /\ \A j \in 1..(i - 1) : IsNameChar(key[j])
                 /\ \A j \in (i + 1)..(n - 1) : IsDigit(key[j])
    IN IF \E i \in 1..n : ok(i) THEN CHOOSE i \in 1..n : ok(i) ELSE 0

ARRAY_RE(key) == ArraySplit(key) # 0

ArrayName(key) == SubSeq(key, 1, ArraySplit(key) - 1)

RECURSIVE DecimalValue(_)
DecimalValue(ds) ==
    IF ds = << >> THEN 0
    ELSE 10 * DecimalValue(SubSeq(ds, 1, Len(ds) - 1)) + DigitVal(ds[Len(ds)])

\* int(m.group('index'))
ArrayIndex(key) == DecimalValue(SubSeq(key, ArraySplit(key) + 1, Len(key) - 1))

(***************************************************************************)
(* Settings classes.  Every class of the model has the shape of the        *)
(* example's ApolloSettingsModel cut down to three fields,                 *)
(*     port: int                     read from  {env_prefix}port           *)
(*     cdd: str = Field(alias='c-dd') read from  c-dd                      *)
(*     a: Optional[List[int]]        read from  {env_prefix}a__bb          *)
(* and inherits env_prefix and env_nested_delimiter from ApolloSettings.   *)
(* Class D declares alias='c__dd' in place of 'c-dd'.                      *)
(***************************************************************************)
Classes == {"A", "B", "A2", "C", "D", "U", "V"}

env_prefix == <<"A", "P", "O", "L", "L", "O", "_">>

env_nested_delimiter == <<"_", "_">>

K_port == <<"p", "o", "r", "t">>

K_cdd == <<"c", "-", "d", "d">>

K_c_dd == <<"c", "_", "_", "d", "d">>

K_a_bb == <<"a", "_", "_", "b", "b">>

\* cls.__namespace__ and cls.model_config of each class
ModelConfig(cls) ==
    CASE cls = "A"  -> [config_server |-> "s1", appid |-> "app", cluster |-> "dev", namespace |-> "n1"]
      [] cls = "B"  -> [config_server |-> "s1", appid |-> "app", cluster |-> "dev", namespace |-> "n2"]
      [] cls = "A2" -> [config_server |-> "s1", appid |-> "app", cluster |-> "dev", namespace |-> "n1"]
      [] cls = "C"  -> [config_server |-> "s2", appid |-> "app", cluster |-> "dev", namespace |-> "n1"]
      [] cls = "D"  -> [config_server |-> "s2", appid |-> "app", cluster |-> "dev", namespace |-> "n2"]
      [] cls = "U"  -> [config_server |-> "s1", appid |-> None, cluster |-> "dev", namespace |-> "n3"]
      [] OTHER      -> [config_server |-> "s1", appid |-> "app", cluster |-> "dev", namespace |-> None]

\* _get_alias: the alias and validation_alias source keys of the class's fields
GetAlias(cls) == IF cls = "D" THEN {K_c_dd} ELSE {K_cdd}

\* the environment name pydantic-settings reads the field cdd from: its alias
CddAlias(cls) == CHOOSE a \in GetAlias(cls) : TRUE

(***************************************************************************)
(* os.environ: a function from keys to values.  A value is a record        *)
(* [json, items]: a plain string v is [json |-> FALSE, items |-> <<v>>],   *)
(* json.dumps of a list is [json |-> TRUE, items |-> the list].            *)
(***************************************************************************)
Scalar(v) == [json |-> FALSE, items |-> <<v>>]

JsonArray(vs) == [json |-> TRUE, items |-> vs]

\* the order of str values under Python's <
ValueOrder == <<"1", "2", "x">>

ValRank(v) == CHOOSE i \in 1..Len(ValueOrder) : ValueOrder[i] = v

\* tuple comparison (index, value) <= (index, value)
PairLeq(x, y) == x[1] < y[1] \/ (x[1] = y[1] /\ ValRank(x[2]) <= ValRank(y[2]))

RECURSIVE InsertSorted(_, _)
InsertSorted(x, s) ==
    IF s = << >> THEN <<x>>
    ELSE IF PairLeq(x, Head(s)) THEN <<x>> \o s
    ELSE <<Head(s)>> \o InsertSorted(x, Tail(s))

\* sorted(vs)
RECURSIVE Sorted(_)
Sorted(vs) == IF vs = << >> THEN << >> ELSE InsertSorted(Head(vs), Sorted(Tail(vs)))

SetEnv(env, key, val) == [k \in DOMAIN env \cup {key} |-> IF k = key THEN val ELSE env[k]]

\* lines 151-158: the os.environ assignments of the loop over config.items(),
\* in dict order, as <<key, value>> pairs
RECURSIVE ScalarWrites(_, _)
ScalarWrites(cls, config) ==
    IF config = << >> THEN << >>
    ELSE LET k == Head(config)[1]
             v == Head(config)[2]
             key == ReplaceDots(k, env_nested_delimiter)
         IN (IF ARRAY_RE(key) THEN << >>
             ELSE << <<IF k \notin GetAlias(cls) THEN env_prefix \o key ELSE key, Scalar(v)>> >>)
            \o ScalarWrites(cls, Tail(config))

\* lines 150-155: arr_map as the list of its names in insertion order ...
RECURSIVE ArrNames(_, _)
ArrNames(config, seen) ==
    IF config = << >> THEN << >>
    ELSE LET key == ReplaceDots(Head(config)[1], env_nested_delimiter)
         IN IF ARRAY_RE(key) /\ ArrayName(key) \notin seen
            THEN <<ArrayName(key)>> \o ArrNames(Tail(config), seen \cup {ArrayName(key)})
            ELSE ArrNames(Tail(config), seen)

\* ... and the (index, value) list of one name
RECURSIVE ArrEntries(_, _)
ArrEntries(config, name) ==
    IF config = << >> THEN << >>
    ELSE LET key == ReplaceDots(Head(config)[1], env_nested_delimiter)
             v == Head(config)[2]
         IN (IF ARRAY_RE(key) /\ ArrayName(key) = name THEN << <<ArrayIndex(key), v>> >> ELSE << >>)
            \o ArrEntries(Tail(config), name)

\* lines 160-163: the os.environ assignments of the loop over arr_map.items()
RECURSIVE ArrayWrites(_, _, _)
ArrayWrites(cls, config, names) ==
    IF names = << >> THEN << >>
    ELSE LET k == Head(names)
             vs == Sorted(ArrEntries(config, k))
         IN << <<IF k \notin GetAlias(cls) THEN env_prefix \o k ELSE k,
                 JsonArray([i \in 1..Len(vs) |-> vs[i][2]])>> >>
            \o ArrayWrites(cls, config, Tail(names))

\* lines 147-163: the assignments to os.environ, in the order they are made
Flatten(cls, config) ==
    ScalarWrites(cls, config) \o ArrayWrites(cls, config, ArrNames(config, {}))

\* os.environ after the assignments
RECURSIVE ApplyWrites(_, _)
ApplyWrites(writes, env) ==
    IF writes = << >> THEN env
    ELSE ApplyWrites(Tail(writes), SetEnv(env, Head(writes)[1], Head(writes)[2]))

(***************************************************************************)
(* The singleton table ApolloSettings.__instances__ and the validation     *)
(* BaseSettings.__init__ performs on os.environ.                           *)
(***************************************************************************)
IntLike(v) == v \in {"1", "2"}

NoInstance == [state |-> "absent", port |-> None, cdd |-> None, a |-> << >>]

\* __new__: the object exists, __init__ never ran on it
Uninitialised == [state |-> "uninit", port |-> None, cdd |-> None, a |-> << >>]

\* the environment names pydantic-settings reads the unaliased fields from
E_port == env_prefix \o K_port

E_a_bb == env_prefix \o K_a_bb

\* whether BaseSettings.__init__ accepts the environment for the class
Validates(cls, env) ==
    /\ E_port \in DOMAIN env
    /\ ~env[E_port].json
    /\ IntLike(env[E_port].items[1])
    /\ CddAlias(cls) \in DOMAIN env
    /\ ~env[CddAlias(cls)].json
    /\ E_a_bb \in DOMAIN env =>
          /\ env[E_a_bb].json
          /\ \A i \in 1..Len(env[E_a_bb].items) : IntLike(env[E_a_bb].items[i])

\* the field values a successful validation stores on the instance
Validated(cls, env) ==
    [state |-> "ready",
     port |-> env[E_port].items[1],
     cdd |-> env[CddAlias(cls)].items[1],
     a |-> IF E_a_bb \in DOMAIN env THEN env[E_a_bb].items ELSE << >>]

\* inst._init(): BaseSettings.__init__ validates os.environ and assigns the
\* fields after the validation passed; on a ValidationError the object keeps
\* what it held
InitInstance(cls, inst, env) == IF Validates(cls, env) THEN Validated(cls, env) ELSE inst

\* an _update_instances whose cls() makes a new object on every call
UpdateInstances_Fresh(cls, writes, env, insts) ==
    LET env2 == ApplyWrites(writes, env)
    IN [env |-> env2,
        instances |-> [insts EXCEPT ![cls] = InitInstance(cls, Uninitialised, env2)],
        raised |-> ~Validates(cls, env2)]

\* _update_instances, given the assignments lines 147-163 make for config:
\* [env, instances, raised]
UpdateInstances(cls, writes, env, insts) ==
    LET env2 == ApplyWrites(writes, env)
        inst == IF insts[cls].state # "absent" THEN insts[cls] ELSE Uninitialised
    IN [env |-> env2,
        instances |-> [insts EXCEPT ![cls] = InitInstance(cls, inst, env2)],
        raised |-> ~Validates(cls, env2)]

(***************************************************************************)
(* State.                                                                  *)
(*   defined        what the definition of each class did: "no" (not yet   *)
(*                  defined), "ok", "raised" (register raised ValueError)  *)
(*                  or "skipped" (no __namespace__: not registered)        *)
(*   clients, registered, notifications, release_keys                      *)
(*                  the dictionaries of ApolloSettingsMetadata; an         *)
(*                  ApolloClient is interned per key and is identified     *)
(*                  with its key                                           *)
(*   onerror_resume the constructor's setting                              *)
(*   started, started_fut, running_fut                                     *)
(*                  the attributes of the same names; a Future is named by *)
(*                  the number of the start() call that created it, 0 is   *)
(*                  None                                                   *)
(*   fut_done       the Futures whose result is set                        *)
(*   n_start, n_stop                                                       *)
(*                  the start() and stop() calls made so far               *)
(*   stop_wait      the running Futures that stop() calls await            *)
(*   runner         per start() call, where its _start task stands         *)
(*   task           per _start task and client, its _notification_one task *)
(*   orphans        namespace fetch tasks whose gather already raised      *)
(*   environ        os.environ                                             *)
(*   instances      ApolloSettings.__instances__                           *)
(*   refresh        the refresh() call of the application: where it        *)
(*                  stands, its class, the release key it sent, what the   *)
(*                  backend answered and what the call returned            *)
(*   flat           a direct _update_instances(cls, config) call: its      *)
(*                  arguments and whether it has run                       *)
(***************************************************************************)
VARIABLES defined, clients, registered, notifications, release_keys,
          onerror_resume, started, started_fut, running_fut, fut_done,
          n_start, n_stop, stop_wait, runner, task, orphans, environ, instances,
          refresh, flat

registry == <<defined, clients, registered, notifications, release_keys>>

lifecycle == <<started, started_fut, running_fut, fut_done, n_start, n_stop, stop_wait, runner>>

\* the calls the application makes outside the engine
calls == <<refresh, flat>>

vars == <<defined, clients, registered, notifications, release_keys,
          onerror_resume, started, started_fut, running_fut, fut_done,
          n_start, n_stop, stop_wait, runner, task, orphans, environ, instances,
          refresh, flat>>

\* _get_key without the namespace
ClientKey(cls) == <<ModelConfig(cls).config_server, ModelConfig(cls).appid, ModelConfig(cls).cluster>>

\* all(key): every component of the 4-tuple is truthy
AllSet(cls) ==
    /\ ModelConfig(cls).config_server # None
    /\ ModelConfig(cls).appid # None
    /\ ModelConfig(cls).cluster # None
    /\ ModelConfig(cls).namespace # None

\* the ApolloClient object interned for a key: ApolloClient defines neither
\* __eq__ nor __hash__, so it is equal to itself only, never to a key tuple
ClientObject(key) == <<"ApolloClient">> \o key

\* the keys of the dictionary _registered: ApolloClient objects (line 76)
RegisteredKeys(reg) == {ClientObject(k) : k \in reg.clients}

\* line 70: key in self._registered and namespace in self._registered.get(key),
\* with key the tuple of line 69
AlreadyDefined(reg, cls) ==
    /\ ClientKey(cls) \in RegisteredKeys(reg)
    /\ \E k \in reg.clients : /\ ClientObject(k) = ClientKey(cls)
                              /\ ModelConfig(cls).namespace \in DOMAIN reg.registered[k]

Sentinel == 0 - 1

\* register(cls) on the registry record reg: the registry it leaves, and
\* whether it raised
RegisterOp(reg, cls) ==
    LET key == ClientKey(cls)
        namespace == ModelConfig(cls).namespace
        known == key \in reg.clients
        oldReg == IF known THEN reg.registered[key] ELSE << >>
        oldNot == IF known THEN reg.notifications[key] ELSE << >>
        oldRel == IF known THEN reg.release_keys[key] ELSE << >>
        cs == reg.clients \cup {key}
    IN IF ~AllSet(cls) \/ AlreadyDefined(reg, cls)
       THEN [reg EXCEPT !.raised = TRUE]
       ELSE [clients |-> cs,
             registered |-> [c \in cs |-> IF c = key
                                THEN [n \in DOMAIN oldReg \cup {namespace} |->
                                         IF n = namespace THEN cls ELSE oldReg[n]]
                                ELSE reg.registered[c]],
             notifications |-> [c \in cs |-> IF c = key
                                THEN Append(oldNot, [namespaceName |-> namespace, notificationId |-> Sentinel])
                                ELSE reg.notifications[c]],
             release_keys |-> [c \in cs |-> IF c = key
                                THEN [n \in DOMAIN oldRel \cup {namespace} |->
                                         IF n = namespace THEN None ELSE oldRel[n]]
                                ELSE reg.release_keys[c]],
             raised |-> FALSE]

EmptyRegistry ==
    [clients |-> {}, registered |-> << >>, notifications |-> << >>, release_keys |-> << >>, raised |-> FALSE]

CurrentRegistry ==
    [clients |-> clients, registered |-> registered, notifications |-> notifications,
     release_keys |-> release_keys, raised |-> FALSE]

\* __pydantic_init_subclass__ of a class being defined
DefineClass(cls) ==
    /\ defined[cls] = "no"
    /\ n_start = 0
    /\ IF ModelConfig(cls).namespace = None
       THEN /\ defined' = [defined EXCEPT ![cls] = "skipped"]
            /\ UNCHANGED <<clients, registered, notifications, release_keys>>
       ELSE LET r == RegisterOp(CurrentRegistry, cls)
            IN /\ defined' = [defined EXCEPT ![cls] = IF r.raised THEN "raised" ELSE "ok"]
               /\ clients' = r.clients
               /\ registered' = r.registered
               /\ notifications' = r.notifications
               /\ release_keys' = r.release_keys
    /\ UNCHANGED <<onerror_resume, calls, lifecycle, task, orphans, environ, instances>>

(***************************************************************************)
(* Bounds of the model.                                                    *)
(***************************************************************************)
MaxStartCalls == 2

MaxStopCalls == 2

MaxNotificationId == 1

MaxOrphans == 1

RECURSIVE RegisterAll(_, _)
RegisterAll(reg, classes) ==
    IF classes = << >> THEN reg
    ELSE RegisterAll([RegisterOp(reg, Head(classes)) EXCEPT !.raised = FALSE], Tail(classes))

\* the class definitions the engine is started on: two namespaces on one
\* connection, two connections, one namespace defined twice, nothing
Scenarios == {<<"A", "B">>, <<"A", "C">>, <<"A", "A2">>, << >>}

(***************************************************************************)
(* Tasks.  pc of a _notification_one task:                                 *)
(*   "none"       no task                                                  *)
(*   "polling"    awaiting client.notification (the long poll)             *)
(*   "updating"   awaiting gather over the namespace fetches of _update    *)
(*   "sleeping"   awaiting asyncio.sleep(onerror_retry_interval)           *)
(*   "returned"   done with a result                                       *)
(*   "raised"     done with an exception                                   *)
(*   "cancelling" cancel() called, CancelledError not yet delivered        *)
(* sent is the notifications list the long poll was sent with, res the     *)
(* long-poll response (namespace -> notificationId; empty for 304 and      *)
(* until the response is there), fetch the state of the fetch task of each *)
(* namespace of res: "pending", "304", "error" or the release it answered  *)
(* with; exc the exception that left _notification_once.  A task that is   *)
(* done keeps res and fetch of its round until the loop replaces it.       *)
(***************************************************************************)
EmptyFn == [n \in {} |-> None]

\* an exception: httpx.HTTPError ("transport"), pydantic's ValidationError
\* ("validation", whose title is the class that failed) or any other
NoException == [kind |-> None, cls |-> None]

Raise(kind) == [kind |-> kind, cls |-> None]

ValidationError(cls) == [kind |-> "validation", cls |-> cls]

IdleTask ==
    [pc |-> "none", resume |-> FALSE, sent |-> << >>, res |-> EmptyFn, fetch |-> EmptyFn, exc |-> NoException]

\* create_task(self._notification_one(key, client, resume)), up to its first
\* await: the long poll is sent with the notifications of that moment
NewPoll(c, resume) ==
    [pc |-> "polling", resume |-> resume, sent |-> notifications[c], res |-> EmptyFn,
     fetch |-> EmptyFn, exc |-> NoException]

Cancelled(t) == [IdleTask EXCEPT !.pc = "cancelling"]

\* a handler that logs the exception and returns without the sleep of line 109
OnError_NoSleep(t, e) ==
    [IdleTask EXCEPT !.pc = IF t.resume THEN "returned" ELSE "raised", !.resume = t.resume,
                     !.res = t.res, !.fetch = t.fetch, !.exc = e]

\* lines 100-110: the exception e leaves _notification_once; it is re-raised,
\* or logged and slept on
OnError(t, e) ==
    [IdleTask EXCEPT !.pc = IF t.resume THEN "sleeping" ELSE "raised", !.resume = t.resume,
                     !.res = t.res, !.fetch = t.fetch, !.exc = e]

\* _notification_once returned (line 89 or 95), or the sleep of line 109 ended
Returned(t) ==
    [IdleTask EXCEPT !.pc = "returned", !.resume = t.resume, !.res = t.res, !.fetch = t.fetch]

\* no refresh() call made
NoRefresh == [pc |-> "idle", cls |-> None, sent |-> None, reply |-> None, result |-> None]

\* no direct _update_instances call
NoFlatten == [cls |-> None, config |-> << >>, done |-> FALSE]

\* the state after the class definitions `classes`, with the constructor's
\* onerror_resume one of `resumes`
InitWith(scenarios, resumes) ==
    /\ \E classes \in scenarios :
          LET r == RegisterAll(EmptyRegistry, classes)
          IN /\ defined = [cls \in Classes |->
                              IF \E i \in 1..Len(classes) : classes[i] = cls
                              THEN (IF ModelConfig(cls).namespace = None THEN "skipped" ELSE "ok")
                              ELSE "no"]
             /\ clients = r.clients
             /\ registered = r.registered
             /\ notifications = r.notifications
             /\ release_keys = r.release_keys
             /\ task = [k \in 1..MaxStartCalls |-> [c \in r.clients |-> IdleTask]]
    /\ onerror_resume \in resumes
    /\ started = FALSE
    /\ started_fut = 0
    /\ running_fut = 0
    /\ fut_done = [started |-> {}, running |-> {}]
    /\ n_start = 0
    /\ n_stop = 0
    /\ stop_wait = {}
    /\ runner = [k \in 1..MaxStartCalls |-> "none"]
    /\ orphans = 0
    /\ environ = EmptyFn
    /\ instances = [cls \in Classes |-> NoInstance]
    /\ refresh = NoRefresh
    /\ flat = NoFlatten

Init == InitWith(Scenarios, BOOLEAN)

\* start(): lines 211-212, up to the await of line 213
StartCall ==
    /\ n_start < MaxStartCalls
    /\ n_start' = n_start + 1
    /\ started_fut' = n_start + 1
    /\ runner' = [runner EXCEPT ![n_start + 1] = "created"]
    /\ UNCHANGED <<registry, onerror_resume, calls, started, running_fut, fut_done, n_stop, stop_wait,
                   task, orphans, environ, instances>>

\* _start, lines 186-192, up to the await of asyncio.wait.  asyncio.wait raises
\* ValueError on an empty set of tasks.
RunStart(k) ==
    /\ runner[k] = "created"
    /\ IF started
       THEN /\ runner' = [runner EXCEPT ![k] = "noop"]
            /\ UNCHANGED <<started, running_fut, task>>
       ELSE /\ started' = TRUE
            /\ running_fut' = k
            /\ IF clients = {}
               THEN /\ runner' = [runner EXCEPT ![k] = "wait_error"]
                    /\ UNCHANGED task
               ELSE /\ runner' = [runner EXCEPT ![k] = "barrier"]
                    /\ task' = [task EXCEPT ![k] = [c \in clients |-> NewPoll(c, FALSE)]]
    /\ UNCHANGED <<registry, onerror_resume, calls, started_fut, fut_done, n_start, n_stop, stop_wait,
                   orphans, environ, instances>>

\* stop(): lines 216-218, up to the await of line 219
StopCall ==
    /\ n_stop < MaxStopCalls
    /\ n_stop' = n_stop + 1
    /\ IF ~started
       THEN UNCHANGED <<started, stop_wait>>
       ELSE /\ started' = FALSE
            /\ stop_wait' = stop_wait \cup {running_fut}
    /\ UNCHANGED <<registry, onerror_resume, calls, started_fut, running_fut, fut_done, n_start, runner,
                   task, orphans, environ, instances>>

(***************************************************************************)
(* The configuration backend.  A namespace fetch answers with one of three *)
(* releases, with 304, or fails; a long poll answers 304, names a nonempty *)
(* subset of the namespaces it was sent with, or fails.                    *)
(***************************************************************************)
ReleaseIds == {"r1", "r2", "r3"}

\* the 'configurations' object of each release, as its items in order
Configurations(r) ==
    CASE r = "r1" -> << <<K_port, "1">>, <<K_cdd, "1">>,
                        <<(<<"a", ".", "b", "b", "[", "1", "]">>), "2">>,
                        <<(<<"a", ".", "b", "b", "[", "0", "]">>), "1">> >>
      [] r = "r2" -> << <<K_port, "2">> >>
      [] OTHER    -> << <<K_port, "x">> >>

\* Flatten of every release for every class, computed once
ReleaseWrites == [cls \in Classes |-> [r \in ReleaseIds |-> Flatten(cls, Configurations(r))]]

SentNames(t) == {t.sent[i].namespaceName : i \in 1..Len(t.sent)}

PollResponses(t) ==
    UNION {[S -> 1..MaxNotificationId] : S \in (SUBSET SentNames(t)) \ {{}}}

\* a round that leaves the notifications list as it is
UpdateNotifications_Unchanged(list, res) == list

\* lines 90-93
UpdateNotifications(list, res) ==
    [i \in 1..Len(list) |->
        IF list[i].namespaceName \in DOMAIN res
        THEN [list[i] EXCEPT !.notificationId = res[list[i].namespaceName]]
        ELSE list[i]]

Pending(t) == {n \in DOMAIN t.fetch : t.fetch[n] = "pending"}

Failed(t) == {n \in DOMAIN t.fetch : t.fetch[n] = "error"}

RECURSIVE SumOver(_, _)
SumOver(S, f) ==
    IF S = {} THEN 0
    ELSE LET x == CHOOSE y \in S : TRUE IN f[x] + SumOver(S \ {x}, f)

\* fetch tasks that are, or are about to be, left behind by a gather that raised
LeftBehind ==
    orphans + SumOver((1..MaxStartCalls) \X clients,
                      [x \in (1..MaxStartCalls) \X clients |->
                          IF task[x[1]][x[2]].pc = "updating" /\ Failed(task[x[1]][x[2]]) # {}
                          THEN Cardinality(Pending(task[x[1]][x[2]])) ELSE 0])

\* the long poll answers 304 (client.py line 43-44): lines 88-89
PollNotModified(k, c) ==
    /\ task[k][c].pc = "polling"
    /\ task' = [task EXCEPT ![k][c] = Returned(@)]
    /\ UNCHANGED <<registry, onerror_resume, calls, lifecycle, orphans, environ, instances>>

\* the long poll names changed namespaces: lines 90-94 and 113-123, up to the
\* await of gather
PollChanged(k, c) ==
    /\ task[k][c].pc = "polling"
    /\ \E res \in PollResponses(task[k][c]) :
          /\ notifications' = [notifications EXCEPT ![c] = UpdateNotifications(@, res)]
          /\ task' = [task EXCEPT ![k][c] =
                         [@ EXCEPT !.pc = "updating", !.sent = << >>, !.res = res,
                                   !.fetch = [n \in DOMAIN res |-> "pending"]]]
    /\ UNCHANGED <<defined, clients, registered, release_keys, onerror_resume, calls, lifecycle,
                   orphans, environ, instances>>

\* the long poll raises (httpx.HTTPError, or anything else)
PollError(k, c) ==
    /\ task[k][c].pc = "polling"
    /\ \E e \in {"transport", "other"} : task' = [task EXCEPT ![k][c] = OnError(@, Raise(e))]
    /\ UNCHANGED <<registry, onerror_resume, calls, lifecycle, orphans, environ, instances>>

\* a namespace fetch (client.uncached_config) answers with a release or 304
FetchReply(k, c) ==
    /\ task[k][c].pc = "updating"
    /\ \E n \in Pending(task[k][c]), r \in ReleaseIds \cup {"304"} :
          task' = [task EXCEPT ![k][c].fetch[n] = r]
    /\ UNCHANGED <<registry, onerror_resume, calls, lifecycle, orphans, environ, instances>>

\* a namespace fetch raises
FetchError(k, c) ==
    /\ task[k][c].pc = "updating"
    /\ \E n \in Pending(task[k][c]) :
          /\ LeftBehind + Cardinality(Pending(task[k][c]) \ {n}) <= MaxOrphans
          /\ task' = [task EXCEPT ![k][c].fetch[n] = "error"]
    /\ UNCHANGED <<registry, onerror_resume, calls, lifecycle, orphans, environ, instances>>

\* the orders in which `for res in result` may meet the results: tasks is a set
Orders(S) == {o \in [1..Cardinality(S) -> S] : \A i, j \in 1..Cardinality(S) : i # j => o[i] # o[j]}

\* _update_metadata, lines 128-134, on the answer r of namespace n
UpdateMetadata(c, n, r, st) ==
    LET u == UpdateInstances(registered[c][n], ReleaseWrites[registered[c][n]][r], st.environ, st.instances)
    IN [release_keys |-> [st.release_keys EXCEPT ![c][n] = r],
        environ |-> u.env,
        instances |-> u.instances,
        raised |-> u.raised,
        cls |-> registered[c][n]]

\* lines 124-126: stops at the first result whose application raises
RECURSIVE ApplyResults(_, _, _, _)
ApplyResults(c, order, fetch, st) ==
    IF order = << >> \/ st.raised THEN st
    ELSE IF fetch[Head(order)] = "304" THEN ApplyResults(c, Tail(order), fetch, st)
    ELSE ApplyResults(c, Tail(order), fetch, UpdateMetadata(c, Head(order), fetch[Head(order)], st))

\* gather is done: it raised the first fetch's exception, leaving the fetches
\* still pending to run on their own, or every fetch answered and the results
\* are applied (lines 123-126); then _notification_once returns or raises
UpdateResume(k, c) ==
    /\ task[k][c].pc = "updating"
    /\ IF Failed(task[k][c]) # {}
       THEN /\ orphans' = orphans + Cardinality(Pending(task[k][c]))
            /\ task' = [task EXCEPT ![k][c] = OnError(@, Raise("transport"))]
            /\ UNCHANGED <<release_keys, environ, instances>>
       ELSE /\ Pending(task[k][c]) = {}
            /\ \E order \in Orders(DOMAIN task[k][c].fetch) :
                  LET st == ApplyResults(c, order, task[k][c].fetch,
                                [release_keys |-> release_keys, environ |-> environ,
                                 instances |-> instances, raised |-> FALSE, cls |-> None])
                  IN /\ release_keys' = st.release_keys
                     /\ environ' = st.environ
                     /\ instances' = st.instances
                     /\ task' = [task EXCEPT ![k][c] =
                                    IF st.raised THEN OnError(@, ValidationError(st.cls)) ELSE Returned(@)]
            /\ UNCHANGED orphans
    /\ UNCHANGED <<defined, clients, registered, notifications, onerror_resume, calls, lifecycle>>

\* asyncio.sleep(onerror_retry_interval) is over: line 110
SleepDone(k, c) ==
    /\ task[k][c].pc = "sleeping"
    /\ task' = [task EXCEPT ![k][c] = Returned(@)]
    /\ UNCHANGED <<registry, onerror_resume, calls, lifecycle, orphans, environ, instances>>

\* a fetch task nobody awaits any more ends
OrphanDone ==
    /\ orphans > 0
    /\ orphans' = orphans - 1
    /\ UNCHANGED <<registry, onerror_resume, calls, lifecycle, task, environ, instances>>

(***************************************************************************)
(* The _start task of the k-th start() call.  runner[k]:                   *)
(*   "none"     start() not called yet                                     *)
(*   "created"  create_task(self._start()) done, not yet run               *)
(*   "noop"     returned at line 187                                       *)
(*   "barrier"  awaiting asyncio.wait of line 191                          *)
(*   "wait_error" ended with the ValueError asyncio.wait raises when there  *)
(*              is no client, hence no task, to wait for (line 191)        *)
(*   "failed"   ended with the exception of an initial cycle (line 196)    *)
(*   "loop"     awaiting asyncio.wait of line 201                          *)
(*   "crashed"  ended with the exception `await task` raised at line 203   *)
(*   "unwind"   awaiting gather of line 207                                *)
(*   "done"     returned after line 208                                    *)
(*   "invalid"  ended with InvalidStateError: set_result on a Future whose *)
(*              result is already set                                      *)
(***************************************************************************)
Done(t) == t.pc \in {"returned", "raised"}

\* asyncio.wait(ALL_COMPLETED) of line 191 returns: lines 193-199, and the
\* first test of `while self._started`; tasks created and cancelled in the
\* same step never run
BarrierDone(k) ==
    /\ runner[k] = "barrier"
    /\ \A c \in clients : Done(task[k][c])
    /\ IF \E c \in clients : task[k][c].pc = "raised"
       THEN /\ runner' = [runner EXCEPT ![k] = "failed"]
            /\ task' = [task EXCEPT ![k] = [c \in clients |-> IdleTask]]
            /\ UNCHANGED fut_done
       ELSE IF started_fut \in fut_done.started
       THEN /\ runner' = [runner EXCEPT ![k] = "invalid"]
            /\ task' = [task EXCEPT ![k] = [c \in clients |-> IdleTask]]
            /\ UNCHANGED fut_done
       ELSE /\ fut_done' = [fut_done EXCEPT !.started = @ \cup {started_fut}]
            /\ IF started
               THEN /\ runner' = [runner EXCEPT ![k] = "loop"]
                    /\ task' = [task EXCEPT ![k] = [c \in clients |-> NewPoll(c, onerror_resume)]]
               ELSE /\ runner' = [runner EXCEPT ![k] = "unwind"]
                    /\ task' = [task EXCEPT ![k] = [c \in clients |-> Cancelled(task[k][c])]]
    /\ UNCHANGED <<registry, onerror_resume, calls, started, started_fut, running_fut, n_start, n_stop,
                   stop_wait, orphans, environ, instances>>

\* a stopped task is cancelled, a finished one is left as it is
Cancel(t) == IF t.pc \in {"polling", "updating", "sleeping"} THEN Cancelled(t) ELSE t

\* a loop that awaits the finished tasks and adds no task for their connections
LoopWake_NoRearm(k) ==
    /\ runner[k] = "loop"
    /\ \E c \in clients : Done(task[k][c])
    /\ IF \E c \in clients : task[k][c].pc = "raised"
       THEN /\ task' = [task EXCEPT ![k] = [c \in clients |->
                           IF Done(task[k][c]) THEN IdleTask ELSE task[k][c]]]
            /\ runner' = [runner EXCEPT ![k] = "crashed"]
       ELSE IF started
       THEN /\ task' = [task EXCEPT ![k] = [c \in clients |->
                           IF Done(task[k][c]) THEN IdleTask ELSE task[k][c]]]
            /\ UNCHANGED runner
       ELSE /\ task' = [task EXCEPT ![k] = [c \in clients |-> Cancelled(task[k][c])]]
            /\ runner' = [runner EXCEPT ![k] = "unwind"]
    /\ UNCHANGED <<registry, onerror_resume, calls, started, started_fut, running_fut, fut_done, n_start,
                   n_stop, stop_wait, orphans, environ, instances>>

\* asyncio.wait(FIRST_COMPLETED) of line 201 returns: lines 202-206.  `done` is a
\* set: when one of its tasks raised, the tasks iterated before it (rearmed)
\* are re-armed and _start ends with the exception.
LoopWake(k) ==
    /\ runner[k] = "loop"
    /\ \E c \in clients : Done(task[k][c])
    /\ LET ok == {c \in clients : task[k][c].pc = "returned"}
           bad == {c \in clients : task[k][c].pc = "raised"}
       IN IF bad # {}
          THEN /\ \E rearmed \in SUBSET ok :
                     task' = [task EXCEPT ![k] = [c \in clients |->
                                 IF c \in rearmed THEN NewPoll(c, onerror_resume)
                                 ELSE IF Done(task[k][c]) THEN IdleTask
                                 ELSE task[k][c]]]
               /\ runner' = [runner EXCEPT ![k] = "crashed"]
          ELSE IF started
          THEN /\ task' = [task EXCEPT ![k] = [c \in clients |->
                              IF c \in ok THEN NewPoll(c, onerror_resume) ELSE task[k][c]]]
               /\ UNCHANGED runner
          ELSE /\ task' = [task EXCEPT ![k] = [c \in clients |-> Cancelled(task[k][c])]]
               /\ runner' = [runner EXCEPT ![k] = "unwind"]
    /\ UNCHANGED <<registry, onerror_resume, calls, started, started_fut, running_fut, fut_done, n_start,
                   n_stop, stop_wait, orphans, environ, instances>>

\* every cancelled task has ended, gather of line 207 returns: line 208
UnwindDone(k) ==
    /\ runner[k] = "unwind"
    /\ task' = [task EXCEPT ![k] = [c \in clients |-> IdleTask]]
    /\ IF running_fut \in fut_done.running
       THEN /\ runner' = [runner EXCEPT ![k] = "invalid"]
            /\ UNCHANGED fut_done
       ELSE /\ runner' = [runner EXCEPT ![k] = "done"]
            /\ fut_done' = [fut_done EXCEPT !.running = @ \cup {running_fut}]
    /\ UNCHANGED <<registry, onerror_resume, calls, started, started_fut, running_fut, n_start, n_stop,
                   stop_wait, orphans, environ, instances>>

\* the steps of the _start tasks
Runners ==
    \/ \E k \in 1..MaxStartCalls : RunStart(k)
    \/ \E k \in 1..MaxStartCalls : BarrierDone(k)
    \/ \E k \in 1..MaxStartCalls : LoopWake(k)
    \/ \E k \in 1..MaxStartCalls : UnwindDone(k)

\* the steps of the _notification_one tasks
Rounds ==
    \/ \E k \in 1..MaxStartCalls, c \in clients : PollNotModified(k, c)
    \/ \E k \in 1..MaxStartCalls, c \in clients : PollChanged(k, c)
    \/ \E k \in 1..MaxStartCalls, c \in clients : PollError(k, c)
    \/ \E k \in 1..MaxStartCalls, c \in clients : FetchReply(k, c)
    \/ \E k \in 1..MaxStartCalls, c \in clients : FetchError(k, c)
    \/ \E k \in 1..MaxStartCalls, c \in clients : UpdateResume(k, c)
    \/ \E k \in 1..MaxStartCalls, c \in clients : SleepDone(k, c)

\* start() call k has returned: the Future it awaits (line 213) has a result
StartReturned(k) == k \in fut_done.started

\* no start() or stop() call is awaiting its Future
NoCallPending ==
    /\ \A k \in 1..n_start : StartReturned(k)
    /\ stop_wait \subseteq fut_done.running

(***************************************************************************)
(* Spec: an application that awaits each start() and stop() before it      *)
(* calls the next.                                                         *)
(***************************************************************************)
Next ==
    \/ NoCallPending /\ StartCall
    \/ NoCallPending /\ StopCall
    \/ Runners
    \/ Rounds
    \/ OrphanDone

Spec == Init /\ [][Next]_vars

(***************************************************************************)
(* ConcSpec: start() and stop() called from concurrent tasks at any        *)
(* moment, on one class (one namespace: no fetch is ever left behind).     *)
(***************************************************************************)
ConcInit == InitWith({<<"A">>}, BOOLEAN)

ConcNext ==
    \/ StartCall
    \/ StopCall
    \/ Runners
    \/ Rounds

ConcSpec == ConcInit /\ [][ConcNext]_vars

(***************************************************************************)
(* LiveSpec: Spec on one class, with the fairness of the event loop: a     *)
(* task that is ready to run runs, an HTTP request ends (it has a          *)
(* timeout), a sleep ends.  The application's calls are not fair.          *)
(***************************************************************************)
LiveNext ==
    \/ NoCallPending /\ StartCall
    \/ NoCallPending /\ StopCall
    \/ Runners
    \/ Rounds

LiveSpec == ConcInit /\ [][LiveNext]_vars /\ WF_vars(Runners) /\ WF_vars(Rounds)

(***************************************************************************)
(* RegSpec: the class definitions, from an empty registry.                 *)
(***************************************************************************)
RegInit ==
    /\ defined = [cls \in Classes |-> "no"]
    /\ clients = {}
    /\ registered = << >>
    /\ notifications = << >>
    /\ release_keys = << >>
    /\ task = [k \in 1..MaxStartCalls |-> << >>]
    /\ onerror_resume = TRUE
    /\ started = FALSE
    /\ started_fut = 0
    /\ running_fut = 0
    /\ fut_done = [started |-> {}, running |-> {}]
    /\ n_start = 0
    /\ n_stop = 0
    /\ stop_wait = {}
    /\ runner = [k \in 1..MaxStartCalls |-> "none"]
    /\ orphans = 0
    /\ environ = EmptyFn
    /\ instances = [cls \in Classes |-> NoInstance]
    /\ refresh = NoRefresh
    /\ flat = NoFlatten

RegNext == \E cls \in Classes : DefineClass(cls)

RegSpec == RegInit /\ [][RegNext]_vars

(***************************************************************************)
(* refresh(): ApolloSettings.refresh and _update_by_release_key.  The call *)
(* is made by a task of the application; like any awaiting task it can be  *)
(* cancelled while the request is in flight.                               *)
(***************************************************************************)
\* a refresh whose handler is `except Exception`: a CancelledError passes it
RefreshResult_ExceptException(exc) ==
    IF exc.kind = None THEN "True" ELSE IF exc.kind = "cancelled" THEN "raised" ELSE "False"

\* lines 263-268: try ... return True, except: return False
RefreshResult(exc) == IF exc.kind = None THEN "True" ELSE "False"

\* cls.refresh(), lines 173-181, up to the await of uncached_config
RefreshCall(cls) ==
    /\ refresh.pc \in {"idle", "done"}
    /\ defined[cls] \in {"ok", "skipped"}
    /\ LET namespace == ModelConfig(cls).namespace
           client == ClientKey(cls)
       IN IF namespace = None \/ client \notin clients
          THEN refresh' = [pc |-> "done", cls |-> cls, sent |-> None, reply |-> None,
                           result |-> RefreshResult(Raise("value"))]
          ELSE IF namespace \notin DOMAIN release_keys[client]
          THEN refresh' = [pc |-> "done", cls |-> cls, sent |-> None, reply |-> None,
                           result |-> RefreshResult(Raise("other"))]
          ELSE refresh' = [pc |-> "fetching", cls |-> cls, sent |-> release_keys[client][namespace],
                           reply |-> None, result |-> None]
    /\ UNCHANGED <<registry, onerror_resume, lifecycle, task, orphans, environ, instances, flat>>

\* the fetch answers 304 or a release: lines 182-183, then line 265
RefreshReply ==
    /\ refresh.pc = "fetching"
    /\ \E r \in ReleaseIds \cup {"304"} :
          IF r = "304"
          THEN /\ refresh' = [refresh EXCEPT !.pc = "done", !.reply = r,
                                             !.result = RefreshResult(NoException)]
               /\ UNCHANGED <<release_keys, environ, instances>>
          ELSE LET st == UpdateMetadata(ClientKey(refresh.cls), ModelConfig(refresh.cls).namespace, r,
                             [release_keys |-> release_keys, environ |-> environ,
                              instances |-> instances, raised |-> FALSE, cls |-> None])
               IN /\ release_keys' = st.release_keys
                  /\ environ' = st.environ
                  /\ instances' = st.instances
                  /\ refresh' = [refresh EXCEPT !.pc = "done", !.reply = r,
                                     !.result = RefreshResult(IF st.raised THEN ValidationError(st.cls)
                                                              ELSE NoException)]
    /\ UNCHANGED <<defined, clients, registered, notifications, onerror_resume, lifecycle, task,
                   orphans, flat>>

\* the fetch raises, or the calling task is cancelled while it awaits it
RefreshError ==
    /\ refresh.pc = "fetching"
    /\ \E e \in {"transport", "other", "cancelled"} :
          refresh' = [refresh EXCEPT !.pc = "done", !.reply = e, !.result = RefreshResult(Raise(e))]
    /\ UNCHANGED <<registry, onerror_resume, lifecycle, task, orphans, environ, instances, flat>>

\* RefreshSpec: an application that calls refresh() on its classes, one call
\* after the other, the engine not started
RefreshInit == InitWith({<<"A", "B", "V">>, <<"A", "A2", "V">>}, {TRUE})

RefreshNext ==
    \/ \E cls \in Classes : RefreshCall(cls)
    \/ RefreshReply
    \/ RefreshError

RefreshSpec == RefreshInit /\ [][RefreshNext]_vars

(***************************************************************************)
(* FlatSpec: _update_instances(cls, config) called once, on an empty       *)
(* os.environ, for every configuration of at most MaxConfigLen items over  *)
(* FlatKeys and FlatValues, and a class of FlatClasses.                    *)
(***************************************************************************)
MaxConfigLen == 2

FlatKeys ==
    {K_port, K_cdd, <<"c", ".", "d", "d">>,
     <<"a", ".", "b", "b", "[", "0", "]">>,
     <<"a", ".", "b", "b", "[", "1", "]">>,
     <<"a", ".", "b", "b", "[", "0", "0", "]">>}

FlatValues == {"1", "2"}

FlatClasses == {"A", "D"}

\* the items of a dict: no key twice
FlatConfigs ==
    {cfg \in UNION {[1..n -> FlatKeys \X FlatValues] : n \in 1..MaxConfigLen} :
        \A i, j \in 1..Len(cfg) : i # j => cfg[i][1] # cfg[j][1]}

FlatInit ==
    /\ defined = [cls \in Classes |-> "no"]
    /\ clients = {}
    /\ registered = << >>
    /\ notifications = << >>
    /\ release_keys = << >>
    /\ task = [k \in 1..MaxStartCalls |-> << >>]
    /\ onerror_resume = TRUE
    /\ started = FALSE
    /\ started_fut = 0
    /\ running_fut = 0
    /\ fut_done = [started |-> {}, running |-> {}]
    /\ n_start = 0
    /\ n_stop = 0
    /\ stop_wait = {}
    /\ runner = [k \in 1..MaxStartCalls |-> "none"]
    /\ orphans = 0
    /\ environ = EmptyFn
    /\ instances = [cls \in Classes |-> NoInstance]
    /\ refresh = NoRefresh
    /\ flat \in {[cls |-> cls, config |-> cfg, done |-> FALSE] : cls \in FlatClasses, cfg \in FlatConfigs}

\* _update_instances(flat.cls, flat.config), lines 146-170
UpdateInstancesCall ==
    /\ flat.cls # None
    /\ ~flat.done
    /\ LET u == UpdateInstances(flat.cls, Flatten(flat.cls, flat.config), environ, instances)
       IN /\ environ' = u.env
          /\ instances' = u.instances
    /\ flat' = [flat EXCEPT !.done = TRUE]
    /\ UNCHANGED <<registry, onerror_resume, lifecycle, task, orphans, refresh>>

FlatNext == UpdateInstancesCall

FlatSpec == FlatInit /\ [][FlatNext]_vars

(***************************************************************************)
(* Properties.                                                             *)
(***************************************************************************)
Registered(cls) == defined[cls] = "ok"

Materialized(cls) == instances[cls].state = "ready"

\* what the k-th start() call has done: the only way out of start() is the
\* result of the Future it awaits (line 213); nothing sets an exception on it
StartOutcome(k) ==
    IF k > n_start THEN "none" ELSE IF StartReturned(k) THEN "returned" ELSE "pending"

\* C1: once a start() call has returned, every registered settings class has
\* a materialized instance, whatever the backend answered to the initial cycle
C1_StartedImpliesMaterialized ==
    \A k \in 1..MaxStartCalls :
        StartOutcome(k) = "returned" => \A cls \in Classes : Registered(cls) => Materialized(cls)

\* C2: when the initial cycle of a connection failed, so that _start ended at
\* line 196, the start() call has raised
C2_BarrierFailureRaised ==
    \A k \in 1..MaxStartCalls : runner[k] = "failed" => StartOutcome(k) = "raised"

\* the long polls outstanding on connection c
LongPolls(c) == {k \in 1..MaxStartCalls : task[k][c].pc = "polling"}

\* C3: at most one long poll is outstanding per connection
C3_OneLongPollPerConnection == \A c \in clients : Cardinality(LongPolls(c)) <= 1

\* the class cls being defined has the connection and namespace of a class
\* that is registered
Duplicates(cls) ==
    /\ AllSet(cls)
    /\ \E d \in Classes : /\ defined[d] = "ok"
                          /\ ClientKey(d) = ClientKey(cls)
                          /\ ModelConfig(d).namespace = ModelConfig(cls).namespace

\* C4: the definition of a class whose connection and namespace are already
\* registered raises and leaves the registry as it was (the owner of the
\* namespace, the notifications list)
C4_DuplicateRegistrationRaises ==
    [][\A cls \in Classes :
          (defined[cls] = "no" /\ defined'[cls] # "no" /\ Duplicates(cls)) =>
              /\ defined'[cls] = "raised"
              /\ UNCHANGED <<clients, registered, notifications, release_keys>>]_vars

\* the notificationId the registry holds for namespace n of connection c
Watermark(c, n) ==
    LET i == CHOOSE i \in 1..Len(notifications[c]) : notifications[c][i].namespaceName = n
    IN notifications[c][i].notificationId

\* a release that validates whatever os.environ held before
ValidAlone(cls, r) == Validates(cls, ApplyWrites(ReleaseWrites[cls][r], EmptyFn))

\* the value of key in the configurations of release r
ConfigValue(r, key) ==
    LET cfg == Configurations(r)
    IN cfg[CHOOSE i \in 1..Len(cfg) : cfg[i][1] = key][2]

\* the round of task (k, c) ends in this step
RoundEnds(k, c) == task[k][c].pc = "updating" /\ task[k][c]' .pc \in {"returned", "sleeping", "raised"}

\* C5: in the running state a long poll that reports namespace n starts one
\* fetch for n, and when the round ends with that fetch answered by a valid
\* release, the watermark of n is the reported one, the release is recorded and
\* the owner's instance is materialized from that release
C5_ReportedNamespaceApplied ==
    [][\A k \in 1..MaxStartCalls, c \in clients :
          /\ (runner[k] = "loop" /\ task[k][c].pc = "polling" /\ task[k][c]' .pc = "updating") =>
                 \A n \in DOMAIN task[k][c]' .res :
                     /\ task[k][c]' .fetch[n] = "pending"
                     /\ Watermark(c, n)' = task[k][c]' .res[n]
          /\ (runner[k] = "loop" /\ RoundEnds(k, c)) =>
                 \A n \in DOMAIN task[k][c].fetch :
                     (task[k][c].fetch[n] \in ReleaseIds /\ ValidAlone(registered[c][n], task[k][c].fetch[n])) =>
                         /\ Watermark(c, n)' = task[k][c].res[n]
                         /\ release_keys'[c][n] = task[k][c].fetch[n]
                         /\ Materialized(registered[c][n])'
                         /\ instances'[registered[c][n]].port = ConfigValue(task[k][c].fetch[n], K_port)]_vars

\* the step applies at least one release and leaves an os.environ the class
\* of the last applied release does not validate on
ApplicationFails(k, c) ==
    /\ RoundEnds(k, c)
    /\ Failed(task[k][c]) = {}
    /\ \E n \in DOMAIN task[k][c].fetch :
          task[k][c].fetch[n] \in ReleaseIds /\ ~Validates(registered[c][n], environ')

\* C6: when the application of a fetched release fails validation, the task
\* leaves _notification_once with the ValidationError (it sleeps on it or
\* re-raises it), and the instance the failing class had keeps its fields
C6_ValidationFailureRetains ==
    [][\A k \in 1..MaxStartCalls, c \in clients :
          ApplicationFails(k, c) =>
              /\ task[k][c]' .pc \in {"sleeping", "raised"}
              /\ task[k][c]' .exc.kind = "validation"
              /\ \E n \in DOMAIN task[k][c].fetch :
                    /\ task[k][c].fetch[n] \in ReleaseIds
                    /\ registered[c][n] = task[k][c]' .exc.cls
              /\ Materialized(task[k][c]' .exc.cls) =>
                    instances'[task[k][c]' .exc.cls] = instances[task[k][c]' .exc.cls]]_vars

\* a task holds a ValidationError of a class whose instance still has the port
\* of an earlier release, not the one os.environ holds now
C6_Witness ==
    \E k \in 1..MaxStartCalls, c \in clients :
        /\ task[k][c].exc.kind = "validation"
        /\ Materialized(task[k][c].exc.cls)
        /\ instances[task[k][c].exc.cls].port # environ[E_port].items[1]

\* C7: a long poll answered 304 changes no watermark, no release key, no
\* instance and nothing of os.environ and starts no fetch; and in the running
\* state the loop's next step on the returned task sends the connection's
\* next long poll, with the registry's watermarks
C7_NotModifiedFrame ==
    [][\A k \in 1..MaxStartCalls, c \in clients :
          /\ (task[k][c].pc = "polling" /\ task[k][c]' .pc = "returned") =>
                 /\ UNCHANGED <<notifications, release_keys, instances, environ, orphans>>
                 /\ task[k][c]' .fetch = EmptyFn
          /\ (/\ runner[k] = "loop"
              /\ started
              /\ task[k][c].pc = "returned"
              /\ \A d \in clients : task[k][d].pc # "raised"
              /\ task[k][c]' # task[k][c]) =>
                 /\ task[k][c]' .pc = "polling"
                 /\ task[k][c]' .sent = notifications[c]]_vars

\* in the running state a long poll has been answered 304, after a release
\* was recorded, and the loop has not yet run again
C7_Witness ==
    \E k \in 1..MaxStartCalls, c \in clients :
        /\ runner[k] = "loop"
        /\ started
        /\ task[k][c].pc = "returned"
        /\ task[k][c].res = EmptyFn
        /\ \E n \in DOMAIN release_keys[c] : release_keys[c][n] # None

\* C8: every stop() call that awaits the running Future returns
C8_StopReturns ==
    \A r \in 1..MaxStartCalls : (r \in stop_wait) ~> (r \in fut_done.running)

\* no _notification_one task and no namespace fetch task is outstanding
NoTaskOutstanding ==
    /\ orphans = 0
    /\ \A k \in 1..MaxStartCalls, c \in clients : task[k][c].pc \in {"none", "returned", "raised"}

\* the engine has been running: some start() passed its initial cycle
HasRun == \E k \in 1..MaxStartCalls : runner[k] \in {"loop", "crashed", "unwind", "done"}

\* C9: when a stop() call returns after the engine was running (at once, line
\* 217, or because the Future it awaits gets its result), no task is outstanding
C9_StopLeavesNoTask ==
    [][/\ (HasRun /\ n_stop' = n_stop + 1 /\ ~started) => NoTaskOutstanding'
       /\ (\E r \in stop_wait : r \notin fut_done.running /\ r \in fut_done'.running) =>
              NoTaskOutstanding']_vars

\* a stop() call has returned
StopReturned == \E r \in stop_wait : r \in fut_done.running

\* C10: in a start() that follows a start() and a stop() that returned, the
\* long poll of the initial cycle carries the sentinel for every namespace,
\* and the start() call has returned only if its _start passed the cycle
C10_RestartFromScratch ==
    \A k \in 2..MaxStartCalls :
        (StopReturned /\ StartOutcome(k - 1) = "returned") =>
            /\ \A c \in clients :
                  (runner[k] = "barrier" /\ task[k][c].pc = "polling") =>
                      \A i \in 1..Len(task[k][c].sent) : task[k][c].sent[i].notificationId = Sentinel
            /\ StartOutcome(k) = "returned" => runner[k] \in {"loop", "crashed", "unwind", "done"}

\* the connections the classes of the model can name
Connections == {ClientKey(cls) : cls \in {d \in Classes : AllSet(d)}}

\* the task of connection c in the loop of start() call k sleeps after a failure
SleepsOnError(k, c) ==
    /\ c \in clients
    /\ runner[k] = "loop"
    /\ task[k][c].pc = "sleeping"

\* C11: with onerror_resume, a round of the loop that fails with any exception
\* leaves _start in its loop and its task asleep; a sleeping task does nothing
\* but end its sleep (or be cancelled by stop()); the loop sends a long poll
\* only for a task that returned; and a sleeping task's connection gets its
\* next long poll unless stop() is called
C11_ResumeSleepsThenRearms ==
    /\ [][\A k \in 1..MaxStartCalls, c \in clients :
             /\ (/\ runner[k] = "loop"
                 /\ task[k][c].resume
                 /\ task[k][c].pc \in {"polling", "updating"}
                 /\ task[k][c]' .exc.kind # None) =>
                    /\ task[k][c]' .pc = "sleeping"
                    /\ runner'[k] = "loop"
             /\ (task[k][c].pc = "sleeping" /\ task[k][c]' # task[k][c]) =>
                    task[k][c]' .pc \in {"returned", "cancelling"}
             /\ (runner[k] = "loop" /\ task[k][c].pc # "polling" /\ task[k][c]' .pc = "polling") =>
                    task[k][c].pc = "returned"]_vars
    /\ [](onerror_resume => \A k \in 1..MaxStartCalls : runner[k] # "crashed")
    /\ \A k \in 1..MaxStartCalls, c \in Connections :
          SleepsOnError(k, c) ~> ((c \in clients /\ task[k][c].pc = "polling") \/ ~started)

\* in the running state a task sleeps on the exception of its round
C11_Witness ==
    \E k \in 1..MaxStartCalls, c \in clients :
        /\ SleepsOnError(k, c)
        /\ started
        /\ task[k][c].exc.kind \in {"validation", "transport", "other"}

\* C12: once _start has ended with the exception of a round of its loop
\* (onerror_resume is off), the engine is not in the running state and none of
\* its connections has a long poll, an update or a sleep outstanding
C12_NoResumeTerminates ==
    \A k \in 1..MaxStartCalls :
        runner[k] = "crashed" =>
            /\ ~started
            /\ \A c \in clients : task[k][c].pc \in {"none", "returned", "raised"}

\* the class that owns the namespace of cls in the registry
Owner(cls) == registered[ClientKey(cls)][ModelConfig(cls).namespace]

\* C13: a refresh() call that is over has returned True or False, True exactly
\* when the fetch answered 304 or answered a release on which the owner of the
\* namespace validates; and the fetch is sent with the release key the
\* registry holds for the namespace
C13_RefreshReturnsBoolean ==
    /\ [](refresh.pc = "done" =>
             /\ refresh.result \in {"True", "False"}
             /\ refresh.result = "True" <=>
                   \/ refresh.reply = "304"
                   \/ /\ refresh.reply \in ReleaseIds
                      /\ Validates(Owner(refresh.cls), environ))
    /\ [][refresh'.pc = "fetching" =>
             refresh'.sent = release_keys[ClientKey(refresh'.cls)][ModelConfig(refresh'.cls).namespace]]_vars

\* a refresh() has returned False on a release that failed validation, sent
\* with the release key of an earlier release
C13_Witness ==
    /\ refresh.pc = "done"
    /\ refresh.result = "False"
    /\ refresh.reply \in ReleaseIds
    /\ refresh.sent \in ReleaseIds

\* C14: the registered classes with one (config_server, appid, cluster) have
\* one client, that client has at most one long poll outstanding, and a long
\* poll is sent with exactly one notifications entry for each namespace
\* registered on its client
C14_OneConnectionPerIdentity ==
    /\ Cardinality(clients) = Cardinality({ClientKey(cls) : cls \in {d \in Classes : Registered(d)}})
    /\ \A c \in clients : Cardinality(LongPolls(c)) <= 1
    /\ \A k \in 1..MaxStartCalls, c \in clients :
          task[k][c].pc = "polling" =>
              /\ SentNames(task[k][c]) = DOMAIN registered[c]
              /\ Len(task[k][c].sent) = Cardinality(DOMAIN registered[c])

\* the flattened key of raw key k
FlatKey(k) == ReplaceDots(k, env_nested_delimiter)

\* the name under which the item of raw key k is written: the array name for
\* a key of the form name[index], the flattened key otherwise
EmittedName(k) == IF ARRAY_RE(FlatKey(k)) THEN ArrayName(FlatKey(k)) ELSE FlatKey(k)

\* C15: after a configuration is flattened for a class, every flattened key
\* that is one of the class's aliases is in os.environ as it is and not with
\* the prefix, every other flattened key is there with the prefix and not
\* without it
C15_AliasAwarePrefix ==
    flat.done =>
        \A i \in 1..Len(flat.config) :
            LET key == EmittedName(flat.config[i][1])
            IN IF key \in GetAlias(flat.cls)
               THEN key \in DOMAIN environ /\ env_prefix \o key \notin DOMAIN environ
               ELSE env_prefix \o key \in DOMAIN environ /\ key \notin DOMAIN environ

\* the key under which the code writes the array `name`
WrittenKey(cls, name) == IF name \in GetAlias(cls) THEN name ELSE env_prefix \o name

\* the elements of a finite set of numbers in ascending order
Ascending(S) == [j \in 1..Cardinality(S) |-> CHOOSE x \in S : Cardinality({y \in S : y < x}) = j - 1]

\* the value of the last of the (index, value) entries es that has index ix
LastValue(es, ix) ==
    LET last == CHOOSE i \in 1..Len(es) : es[i][1] = ix /\ \A j \in (i + 1)..Len(es) : es[j][1] # ix
    IN es[last][2]

\* the array of the entries es: one value per index, the last written, in
\* ascending index order
LastWriterArray(es) ==
    LET idx == Ascending({es[i][1] : i \in 1..Len(es)})
    IN [j \in 1..Len(idx) |-> LastValue(es, idx[j])]

\* C16: after a configuration is flattened, no key of the form name[index] is
\* in os.environ, and the key of each such name holds the JSON array of the
\* values in ascending index order, with the last written value for an index
\* that occurs twice
C16_ArrayFlattening ==
    flat.done =>
        \A i \in 1..Len(flat.config) :
            LET key == FlatKey(flat.config[i][1])
            IN ARRAY_RE(key) =>
                  /\ key \notin DOMAIN environ
                  /\ env_prefix \o key \notin DOMAIN environ
                  /\ WrittenKey(flat.cls, ArrayName(key)) \in DOMAIN environ
                  /\ environ[WrittenKey(flat.cls, ArrayName(key))] =
                        JsonArray(LastWriterArray(ArrEntries(flat.config, ArrayName(key))))

\* C17: when the loop sends the next long poll of a connection, every
\* namespace of the round before whose fetch answered a release has had that
\* release applied (recorded by _update_metadata), whether or not the round
\* failed on another namespace
C17_AllAppliedBeforeRearm ==
    [][\A k \in 1..MaxStartCalls, c \in clients :
          (task[k][c].pc = "returned" /\ task[k][c]' .pc = "polling") =>
              \A n \in DOMAIN task[k][c].fetch :
                  task[k][c].fetch[n] \in ReleaseIds => release_keys[c][n] = task[k][c].fetch[n]]_vars

\* every notifications entry of connection c for a namespace of res holds the
\* notificationId res reports
WatermarksAre(c, res) ==
    \A i \in 1..Len(notifications[c]) :
        notifications[c][i].namespaceName \in DOMAIN res =>
            notifications[c][i].notificationId = res[notifications[c][i].namespaceName]

\* C18: while the fetches of a round are outstanding, and after the round has
\* ended (returned, failed and asleep, failed and re-raised), the registry
\* holds for every namespace the long poll reported the notificationId it
\* reported; and the cancellation of a round leaves them as they are
C18_WatermarkBeforeFetch ==
    /\ [](\A k \in 1..MaxStartCalls, c \in clients :
             task[k][c].pc \in {"updating", "sleeping", "returned", "raised"} =>
                 WatermarksAre(c, task[k][c].res))
    /\ [][\A k \in 1..MaxStartCalls, c \in clients :
             (task[k][c].pc = "updating" /\ task[k][c]' .pc = "cancelling") =>
                 /\ WatermarksAre(c, task[k][c].res)'
                 /\ UNCHANGED notifications]_vars

\* a round has failed on the fetch of a namespace whose watermark the registry
\* has advanced from the sentinel
C18_Witness ==
    \E k \in 1..MaxStartCalls, c \in clients :
        /\ task[k][c].pc = "sleeping"
        /\ \E n \in DOMAIN task[k][c].fetch :
              /\ task[k][c].fetch[n] = "error"
              /\ Watermark(c, n) = task[k][c].res[n]
              /\ Watermark(c, n) # Sentinel

\* the instance of cls that release r gives on its own, on an os.environ that
\* holds nothing of an earlier release
FromReleaseAlone(cls, r) == Validated(cls, ApplyWrites(ReleaseWrites[cls][r], EmptyFn))

\* C19: when the application of release r to class cls succeeds and changes
\* the instance, the instance is the one r gives on its own: r validates on
\* its own and no field comes from a key r does not have
C19_WholesaleReplacement ==
    [][\A k \in 1..MaxStartCalls, c \in clients :
          RoundEnds(k, c) =>
              \A n \in DOMAIN task[k][c].fetch :
                  (/\ task[k][c].fetch[n] \in ReleaseIds
                   /\ instances'[registered[c][n]] # instances[registered[c][n]]
                   /\ Materialized(registered[c][n])') =>
                      /\ ValidAlone(registered[c][n], task[k][c].fetch[n])
                      /\ instances'[registered[c][n]] =
                            FromReleaseAlone(registered[c][n], task[k][c].fetch[n])]_vars

\* C20: a class that has an entry in __instances__ has had a release applied
\* with success: its instance is validated
C20_InstanceImpliesApplied ==
    \A cls \in Classes : instances[cls].state # "absent" => Materialized(cls)

====
